---- MODULE Spec2Model ----
(***************************************************************************)
(* Model of TwitterContract (src/src/lib.rs): a map of tweets kept in a    *)
(* near_sdk::store::IterableMap plus the next_tweet_id counter, with the   *)
(* call methods post_tweet, like_tweet, delete_tweet and the view methods  *)
(* get_all_tweets, get_tweet_by_id, get_tweets_by_author.                  *)
(*                                                                         *)
(* Every method is an operator of the contract state and its arguments; a  *)
(* call method yields [self |-> the new state, ret |-> the returned value, *)
(* log |-> the message logged].  The actions PostTweet, LikeTweet and      *)
(* DeleteTweet apply them with inputs drawn from small sets and record the *)
(* call, what it returned and what it logged.                              *)
(***************************************************************************)
EXTENDS Integers, Sequences, FiniteSets, TLC

\* ---------------------------------------------------------------- bounds
\* PostTweet is enabled while next_tweet_id < MaxTweets
MaxTweets == 3
\* LikeTweet on a present tweet is enabled while the likes stored in the
\* contract total less than MaxLikes
MaxLikes == 2
\* PostFeed is enabled while next_tweet_id < MaxFeed
MaxFeed == 12

\* ---------------------------------------------------------------- inputs
\* env::predecessor_account_id() of a call
Accounts == {"alice", "bob"}
\* author_id arguments of get_tweets_by_author: the callers and a stranger
AuthorArgs == Accounts \cup {"carol"}
\* text arguments of post_tweet (the contract stores the text and never reads it)
Texts == {"a"}
\* env::block_timestamp() of a call
Timestamps == {7}
\* tweet_id arguments: every id allocated within the bound, and one beyond
TweetIds == 0..MaxTweets
\* from_index / limit values below 2^32
Indexes == 0..(MaxTweets + 1)

\* A u64 argument of a view method is [hi, lo]: the value hi * 2^32 + lo,
\* its upper and its lower 32 bits (lo below 2^31, the largest integer TLC has)
U64(hi, lo) == [hi |-> hi, lo |-> lo]
U(n) == U64(0, n)
\* from_index values at and beyond 2^32
WideIndexes == {U64(hi, lo) : hi \in {0, 1}, lo \in Indexes}

\* Option<T> is a sequence: <<>> is None, <<x>> is Some(x)
None == <<>>
Some(x) == <<x>>
OptIndexes == {None} \cup {Some(U(n)) : n \in Indexes}
\* from_index / limit arguments of the view calls that SpecViews records
ViewArgs == {None, Some(U(1))}

VARIABLES
    self,           \* the TwitterContract: [tweets, next_tweet_id]
    call,           \* the call that produced this state: method, caller, arguments
    ret,            \* what that call returned: a sequence of tweets
    log,            \* which env::log_str message that call wrote
    created,        \* history: number of post_tweet calls that have returned
    postedIds,      \* history: the ids those calls returned, in call order
    likeCalls,      \* history: like_tweet calls made on each present tweet since its creation
    deletedBy       \* history: removed id -> the caller whose delete_tweet removed it

vars == <<self, call, ret, log, created, postedIds, likeCalls, deletedBy>>

\* ------------------------------------------------ u64 / usize arithmetic
\* A u64 field is an integer of the model: k >= 0 is the value k, and k < 0 is
\* the value 2^64 + k (-1 is u64::MAX), so that integer addition is u64 addition
\* modulo 2^64 as long as the values stay within 2^31 of 0 or of 2^64.
\* `x += 1` on a u64 field, as the wrapping build computes it
U64Add(x, y) == x + y
\* the addition carries out of 64 bits
U64Overflows(x, y) == x < 0 /\ x + y >= 0
\* width of usize: the contract is built for wasm32, where usize is 32 bits
\* (on a 64-bit host, as in the unit tests, it is 64 and the cast keeps the value)
UsizeBits == 32
\* a u64 as an integer of the model: a value at or above 2^32 reads as 2^31 - 1.
\* It is only compared with, or used to index, collections shorter than that.
U64Sat(v) == IF v.hi = 0 THEN v.lo ELSE 2147483647
\* `v as usize`: a 32-bit usize keeps the lower 32 bits of the u64
AsUsize(v) == IF UsizeBits = 32 THEN v.lo ELSE U64Sat(v)

\* Option::unwrap_or
UnwrapOr_default(opt, default) == IF opt = None THEN U(0) ELSE opt[1]

UnwrapOr(opt, default) == IF opt = None THEN default ELSE opt[1]

\* ------------------------------------------------------------ the record
Tweet(id, author, text, timestamp, likes) ==
    [id |-> id, author |-> author, text |-> text, timestamp |-> timestamp, likes |-> likes]

\* ------------------------------------------ near_sdk::store::IterableMap
\* An IterableMap is [keys |-> the vector of keys, in iteration order,
\*                    values |-> the lookup key -> value],
\* as near_sdk documents it: iteration follows the keys vector, insert pushes
\* a new key at the end, and remove swaps the last key into the freed slot.
MapNew == [keys |-> <<>>, values |-> <<>>]

MapContains(m, k) == k \in DOMAIN m.values

\* position of a present key k in the keys vector (1-based)
KeyIndex(m, k) == CHOOSE i \in 1..Len(m.keys) : m.keys[i] = k

\* IterableMap::insert: a new key is pushed onto the keys vector; an existing
\* key keeps its position and only its value is replaced
MapInsert(m, k, v) ==
    [keys   |-> IF MapContains(m, k) THEN m.keys ELSE Append(m.keys, k),
     values |-> [x \in DOMAIN m.values \cup {k} |-> IF x = k THEN v ELSE m.values[x]]]

MapRemove_pops_last(m, k) ==
    IF ~MapContains(m, k) THEN m
    ELSE LET n == Len(m.keys)
         IN  [keys   |-> SubSeq(m.keys, 1, n - 1),
              values |-> [x \in DOMAIN m.values \ {m.keys[n]} |-> m.values[x]]]

\* IterableMap::remove: Vector::swap_remove on the keys vector - the last key
\* is moved into the removed key's position and the vector shrinks by one
MapRemove(m, k) ==
    IF ~MapContains(m, k) THEN m
    ELSE LET i == KeyIndex(m, k)
             n == Len(m.keys)
         IN  [keys   |-> [j \in 1..(n - 1) |-> IF j = i THEN m.keys[n] ELSE m.keys[j]],
              values |-> [x \in DOMAIN m.values \ {k} |-> m.values[x]]]

\* IterableMap::get(..).cloned()
MapGet(m, k) == IF MapContains(m, k) THEN Some(m.values[k]) ELSE None

\* IterableMap::iter(): the values in the order of the keys vector
MapIter(m) == [i \in 1..Len(m.keys) |-> m.values[m.keys[i]]]

\* Iterator::skip(n).take(k).collect()
SkipTake(s, n, k) ==
    LET lo == IF n < Len(s) THEN n ELSE Len(s)
        hi == IF lo + k < Len(s) THEN lo + k ELSE Len(s)
    IN  [i \in 1..(hi - lo) |-> s[lo + i]]

\* ------------------------------------------------------------------- new
new == [tweets |-> MapNew, next_tweet_id |-> 0]

\* ------------------------------------------------------------ post_tweet
\* A call method yields [self, ret, log]: the new contract state, the value
\* returned and which env::log_str message was written.
post_tweet_no_increment(this, author, text, timestamp) ==
    LET tweet_id == this.next_tweet_id
        new_tweet == Tweet(tweet_id, author, text, timestamp, 0)
    IN  [self |-> [tweets |-> MapInsert(this.tweets, tweet_id, new_tweet),
                   next_tweet_id |-> this.next_tweet_id],
         ret  |-> new_tweet,
         log  |-> "posted"]

post_tweet_id_from_len(this, author, text, timestamp) ==
    LET tweet_id == Len(this.tweets.keys)
        new_tweet == Tweet(tweet_id, author, text, timestamp, 0)
    IN  [self |-> [tweets |-> MapInsert(this.tweets, tweet_id, new_tweet),
                   next_tweet_id |-> U64Add(this.next_tweet_id, 1)],
         ret  |-> new_tweet,
         log  |-> "posted"]

post_tweet_starts_liked(this, author, text, timestamp) ==
    LET tweet_id == this.next_tweet_id
        new_tweet == Tweet(tweet_id, author, text, timestamp, 1)
    IN  [self |-> [tweets |-> MapInsert(this.tweets, tweet_id, new_tweet),
                   next_tweet_id |-> U64Add(this.next_tweet_id, 1)],
         ret  |-> new_tweet,
         log  |-> "posted"]

post_tweet_insert_after_increment(this, author, text, timestamp) ==
    LET tweet_id == this.next_tweet_id
        new_tweet == Tweet(tweet_id, author, text, timestamp, 0)
    IN  [self |-> [tweets |-> MapInsert(this.tweets, U64Add(this.next_tweet_id, 1), new_tweet),
                   next_tweet_id |-> U64Add(this.next_tweet_id, 1)],
         ret  |-> new_tweet,
         log  |-> "posted"]

post_tweet(this, author, text, timestamp) ==
    LET tweet_id == this.next_tweet_id
        new_tweet == Tweet(tweet_id, author, text, timestamp, 0)
    IN  [self |-> [tweets |-> MapInsert(this.tweets, tweet_id, new_tweet),
                   next_tweet_id |-> U64Add(this.next_tweet_id, 1)],
         ret  |-> new_tweet,
         log  |-> "posted"]

\* ------------------------------------------------------------ like_tweet
like_tweet_author_only(this, tweet_id, caller) ==
    IF MapContains(this.tweets, tweet_id)
    THEN LET tweet == this.tweets.values[tweet_id]
             liked == IF tweet.author = caller
                      THEN [tweet EXCEPT !.likes = U64Add(@, 1)] ELSE tweet
         IN  [self |-> [this EXCEPT !.tweets.values[tweet_id] = liked],
              ret  |-> Some(liked),
              log  |-> "liked"]
    ELSE [self |-> this, ret |-> None, log |-> "like_not_found"]

like_tweet_upsert(this, tweet_id, caller) ==
    IF MapContains(this.tweets, tweet_id)
    THEN LET liked == [this.tweets.values[tweet_id] EXCEPT !.likes = U64Add(@, 1)]
         IN  [self |-> [this EXCEPT !.tweets.values[tweet_id] = liked],
              ret  |-> Some(liked),
              log  |-> "liked"]
    ELSE [self |-> [this EXCEPT !.tweets =
                        MapInsert(@, tweet_id, Tweet(tweet_id, caller, "", 0, 1))],
          ret  |-> None,
          log  |-> "like_not_found"]

like_tweet_records_liker(this, tweet_id, caller) ==
    IF MapContains(this.tweets, tweet_id)
    THEN LET liked == [this.tweets.values[tweet_id] EXCEPT !.likes = U64Add(@, 1),
                                                            !.author = caller]
         IN  [self |-> [this EXCEPT !.tweets.values[tweet_id] = liked],
              ret  |-> Some(liked),
              log  |-> "liked"]
    ELSE [self |-> this, ret |-> None, log |-> "like_not_found"]

like_tweet_returns_stale(this, tweet_id, caller) ==
    IF MapContains(this.tweets, tweet_id)
    THEN LET liked == [this.tweets.values[tweet_id] EXCEPT !.likes = U64Add(@, 1)]
         IN  [self |-> [this EXCEPT !.tweets.values[tweet_id] = liked],
              ret  |-> Some(this.tweets.values[tweet_id]),
              log  |-> "liked"]
    ELSE [self |-> this, ret |-> None, log |-> "like_not_found"]

\* caller is env::predecessor_account_id(), which like_tweet only writes to the log
like_tweet(this, tweet_id, caller) ==
    IF MapContains(this.tweets, tweet_id)
    THEN LET liked == [this.tweets.values[tweet_id] EXCEPT !.likes = U64Add(@, 1)]
         IN  [self |-> [this EXCEPT !.tweets.values[tweet_id] = liked],
              ret  |-> Some(liked),
              log  |-> "liked"]
    ELSE [self |-> this, ret |-> None, log |-> "like_not_found"]

\* ---------------------------------------------------------- delete_tweet
delete_tweet_no_author_check(this, tweet_id, caller) ==
    IF MapContains(this.tweets, tweet_id)
    THEN [self |-> [this EXCEPT !.tweets = MapRemove(@, tweet_id)], log |-> "deleted"]
    ELSE [self |-> this, log |-> "delete_not_found"]

delete_tweet_reclaims_id(this, tweet_id, caller) ==
    IF MapContains(this.tweets, tweet_id)
    THEN IF this.tweets.values[tweet_id].author = caller
         THEN [self |-> [this EXCEPT !.tweets = MapRemove(@, tweet_id)], log |-> "deleted"]
         ELSE [self |-> this, log |-> "not_the_author"]
    ELSE [self |-> IF tweet_id + 1 = this.next_tweet_id
                   THEN [this EXCEPT !.next_tweet_id = tweet_id] ELSE this,
          log  |-> "delete_not_found"]

delete_tweet_decrements(this, tweet_id, caller) ==
    IF MapContains(this.tweets, tweet_id)
    THEN IF this.tweets.values[tweet_id].author = caller
         THEN [self |-> [tweets |-> MapRemove(this.tweets, tweet_id),
                         next_tweet_id |-> this.next_tweet_id - 1],
               log  |-> "deleted"]
         ELSE [self |-> this, log |-> "not_the_author"]
    ELSE [self |-> this, log |-> "delete_not_found"]

delete_tweet_drops_last(this, tweet_id, caller) ==
    IF MapContains(this.tweets, tweet_id)
    THEN IF this.tweets.values[tweet_id].author = caller
         THEN LET last == this.tweets.keys[Len(this.tweets.keys)]
              IN  [self |-> [this EXCEPT !.tweets = MapRemove(MapRemove(@, tweet_id), last)],
                   log  |-> "deleted"]
         ELSE [self |-> this, log |-> "not_the_author"]
    ELSE [self |-> this, log |-> "delete_not_found"]

delete_tweet(this, tweet_id, caller) ==
    IF MapContains(this.tweets, tweet_id)
    THEN IF this.tweets.values[tweet_id].author = caller
         THEN [self |-> [this EXCEPT !.tweets = MapRemove(@, tweet_id)], log |-> "deleted"]
         ELSE [self |-> this, log |-> "not_the_author"]
    ELSE [self |-> this, log |-> "delete_not_found"]

\* ------------------------------------------------------------ view methods
get_all_tweets(this, from_index, limit) ==
    LET start == UnwrapOr(from_index, U(0))
        limit_val == UnwrapOr(limit, U(10))
    IN  SkipTake(MapIter(this.tweets), AsUsize(start), AsUsize(limit_val))

get_tweet_by_id_nth(this, tweet_id) ==
    IF tweet_id < Len(this.tweets.keys) THEN Some(MapIter(this.tweets)[tweet_id + 1]) ELSE None

get_tweet_by_id(this, tweet_id) == MapGet(this.tweets, tweet_id)

\* the loop of get_tweets_by_author from item i on; st is the loop's state
\* [author_tweets, count, current_index]; start and limit_val are the u64
\* arguments as integers (U64Sat), compared with the two counters only
InWindow(st, start, limit_val) ==
    st.current_index >= start /\ st.count < limit_val

ScanDone_one_early(st, start, limit_val) ==
    st.count + 1 >= limit_val /\ st.current_index > start

ScanDone(st, start, limit_val) ==
    st.count >= limit_val /\ st.current_index > start

RECURSIVE ScanFrom(_, _, _, _, _, _)
ScanFrom(items, i, author_id, start, limit_val, st) ==
    IF i > Len(items) THEN st.author_tweets
    ELSE LET tweet == items[i]
             st1 == IF tweet.author = author_id
                    THEN IF InWindow(st, start, limit_val)
                         THEN [author_tweets |-> Append(st.author_tweets, tweet),
                               count         |-> st.count + 1,
                               current_index |-> st.current_index + 1]
                         ELSE [st EXCEPT !.current_index = @ + 1]
                    ELSE st
         IN  IF ScanDone(st1, start, limit_val)
             THEN st1.author_tweets
             ELSE ScanFrom(items, i + 1, author_id, start, limit_val, st1)

get_tweets_by_author(this, author_id, from_index, limit) ==
    LET start == U64Sat(UnwrapOr(from_index, U(0)))
        limit_val == U64Sat(UnwrapOr(limit, U(10)))
    IN  ScanFrom(MapIter(this.tweets), 1, author_id, start, limit_val,
                 [author_tweets |-> <<>>, count |-> 0, current_index |-> 0])

\* ------------------------------------------------------------------ init
Init ==
    /\ self = new
    /\ call = [op |-> "new"]
    /\ ret = <<>>
    /\ log = "none"
    /\ created = 0
    /\ postedIds = <<>>
    /\ likeCalls = <<>>
    /\ deletedBy = <<>>

\* --------------------------------------------------------------- actions
\* the likes of all stored tweets together
RECURSIVE SumLikes(_)
SumLikes(s) == IF s = <<>> THEN 0 ELSE Head(s).likes + SumLikes(Tail(s))
TotalLikes(this) == SumLikes(MapIter(this.tweets))

PostTweet ==
    \E author \in Accounts, text \in Texts, timestamp \in Timestamps :
        LET r == post_tweet(self, author, text, timestamp)
        IN  /\ self.next_tweet_id < MaxTweets
            /\ self' = r.self
            /\ call' = [op |-> "post_tweet", caller |-> author, text |-> text,
                        timestamp |-> timestamp]
            /\ ret' = <<r.ret>>
            /\ log' = r.log
            /\ created' = created + 1
            /\ postedIds' = Append(postedIds, r.ret.id)
            /\ likeCalls' = [x \in DOMAIN likeCalls \cup {r.ret.id} |->
                                IF x = r.ret.id THEN 0 ELSE likeCalls[x]]
            /\ UNCHANGED deletedBy

LikeTweet ==
    \E caller \in Accounts, tweet_id \in TweetIds :
        LET r == like_tweet(self, tweet_id, caller)
            present == MapContains(self.tweets, tweet_id)
        IN  /\ present => TotalLikes(self) < MaxLikes
            /\ self' = r.self
            /\ call' = [op |-> "like_tweet", caller |-> caller, tweet_id |-> tweet_id]
            /\ ret' = r.ret
            /\ log' = r.log
            /\ likeCalls' = IF present
                            THEN [likeCalls EXCEPT ![tweet_id] = @ + 1]
                            ELSE likeCalls
            /\ UNCHANGED <<created, postedIds, deletedBy>>

DeleteTweet ==
    \E caller \in Accounts, tweet_id \in TweetIds :
        LET r == delete_tweet(self, tweet_id, caller)
            removed == MapContains(self.tweets, tweet_id)
                       /\ ~MapContains(r.self.tweets, tweet_id)
        IN  /\ self' = r.self
            /\ call' = [op |-> "delete_tweet", caller |-> caller, tweet_id |-> tweet_id]
            /\ ret' = <<>>
            /\ log' = r.log
            /\ deletedBy' = IF removed
                            THEN [x \in DOMAIN deletedBy \cup {tweet_id} |->
                                    IF x = tweet_id THEN caller ELSE deletedBy[x]]
                            ELSE deletedBy
            /\ likeCalls' = IF removed
                            THEN [x \in DOMAIN likeCalls \ {tweet_id} |-> likeCalls[x]]
                            ELSE likeCalls
            /\ UNCHANGED <<created, postedIds>>

Next == PostTweet \/ LikeTweet \/ DeleteTweet

Spec == Init /\ [][Next]_vars

\* ------------------------------------------------------------ long feed
\* post_tweet calls alone, up to MaxFeed tweets: stores longer than the
\* default limit of the view methods
PostFeed ==
    \E author \in Accounts, text \in Texts, timestamp \in Timestamps :
        LET r == post_tweet(self, author, text, timestamp)
        IN  /\ self.next_tweet_id < MaxFeed
            /\ self' = r.self
            /\ call' = [op |-> "post_tweet", caller |-> author, text |-> text,
                        timestamp |-> timestamp]
            /\ ret' = <<r.ret>>
            /\ log' = r.log
            /\ created' = created + 1
            /\ postedIds' = Append(postedIds, r.ret.id)
            /\ likeCalls' = [x \in DOMAIN likeCalls \cup {r.ret.id} |->
                                IF x = r.ret.id THEN 0 ELSE likeCalls[x]]
            /\ UNCHANGED deletedBy

NextFeed == PostFeed

SpecFeed == Init /\ [][NextFeed]_vars

\* ------------------------------------------------- counters at u64::MAX
\* Stores whose counters are one or two below 2^64: one tweet with id n - 1
\* and next_tweet_id n.
EdgeStores ==
    {[tweets |-> MapInsert(MapNew, n - 1, Tweet(n - 1, a, "a", 7, l)), next_tweet_id |-> n] :
        n \in {-2, -1}, a \in Accounts, l \in {-2, -1}}
EdgeIds == {-3, -2, -1, 0}

InitEdge ==
    /\ self \in EdgeStores
    /\ call = [op |-> "new"]
    /\ ret = <<>>
    /\ log = "none"
    /\ created = 0
    /\ postedIds = <<>>
    /\ likeCalls = <<>>
    /\ deletedBy = <<>>

\* A panic ends the call: the host discards its writes and nothing is returned.
Panicked(this) == [self |-> this, ret |-> None, log |-> "panic"]

\* `+= 1` panics on overflow in a build with overflow checks (debug, and release
\* with overflow-checks = true) and wraps in a build without; overflow_checks
\* is the build that runs the call.
PostEdge ==
    \E author \in Accounts, text \in Texts, timestamp \in Timestamps,
       overflow_checks \in BOOLEAN :
        LET r == IF overflow_checks /\ U64Overflows(self.next_tweet_id, 1)
                 THEN Panicked(self)
                 ELSE [post_tweet(self, author, text, timestamp) EXCEPT !.ret = Some(@)]
        IN  /\ self.next_tweet_id < 0
            /\ self' = r.self
            /\ call' = [op |-> "post_tweet", caller |-> author, text |-> text,
                        timestamp |-> timestamp]
            /\ ret' = r.ret
            /\ log' = r.log
            /\ UNCHANGED <<created, postedIds, likeCalls, deletedBy>>

LikeEdge ==
    \E caller \in Accounts, tweet_id \in EdgeIds, overflow_checks \in BOOLEAN :
        LET present == MapContains(self.tweets, tweet_id)
            r == IF overflow_checks /\ present
                        /\ U64Overflows(self.tweets.values[tweet_id].likes, 1)
                 THEN Panicked(self)
                 ELSE like_tweet(self, tweet_id, caller)
        IN  /\ present => self.tweets.values[tweet_id].likes < 0
            /\ self' = r.self
            /\ call' = [op |-> "like_tweet", caller |-> caller, tweet_id |-> tweet_id]
            /\ ret' = r.ret
            /\ log' = r.log
            /\ UNCHANGED <<created, postedIds, likeCalls, deletedBy>>

DeleteEdge ==
    \E caller \in Accounts, tweet_id \in EdgeIds :
        LET r == delete_tweet(self, tweet_id, caller)
        IN  /\ self' = r.self
            /\ call' = [op |-> "delete_tweet", caller |-> caller, tweet_id |-> tweet_id]
            /\ ret' = <<>>
            /\ log' = r.log
            /\ UNCHANGED <<created, postedIds, likeCalls, deletedBy>>

NextEdge == PostEdge \/ LikeEdge \/ DeleteEdge

\* the call methods on stores whose counters are about to pass u64::MAX; the
\* history variables are not maintained here
SpecEdge == InitEdge /\ [][NextEdge]_vars

\* ---------------------------------------------------------- view calls
\* The view methods take &self: a call returns a value and assigns no field.
GetAllTweets ==
    \E from_index \in ViewArgs, limit \in ViewArgs :
        /\ self' = self
        /\ call' = [op |-> "get_all_tweets", from_index |-> from_index, limit |-> limit]
        /\ ret' = get_all_tweets(self, from_index, limit)
        /\ log' = "none"
        /\ UNCHANGED <<created, postedIds, likeCalls, deletedBy>>

GetTweetById_takes ==
    \E tweet_id \in TweetIds :
        /\ self' = [self EXCEPT !.tweets = MapRemove(@, tweet_id)]
        /\ call' = [op |-> "get_tweet_by_id", tweet_id |-> tweet_id]
        /\ ret' = get_tweet_by_id(self, tweet_id)
        /\ log' = "none"
        /\ UNCHANGED <<created, postedIds, likeCalls, deletedBy>>

GetTweetById ==
    \E tweet_id \in TweetIds :
        /\ self' = self
        /\ call' = [op |-> "get_tweet_by_id", tweet_id |-> tweet_id]
        /\ ret' = get_tweet_by_id(self, tweet_id)
        /\ log' = "none"
        /\ UNCHANGED <<created, postedIds, likeCalls, deletedBy>>

GetTweetsByAuthor ==
    \E author_id \in AuthorArgs, from_index \in ViewArgs, limit \in ViewArgs :
        /\ self' = self
        /\ call' = [op |-> "get_tweets_by_author", author_id |-> author_id,
                    from_index |-> from_index, limit |-> limit]
        /\ ret' = get_tweets_by_author(self, author_id, from_index, limit)
        /\ log' = "none"
        /\ UNCHANGED <<created, postedIds, likeCalls, deletedBy>>

NextViews == Next \/ GetAllTweets \/ GetTweetById \/ GetTweetsByAuthor

\* the call methods interleaved with view calls
SpecViews == Init /\ [][NextViews]_vars

\* ============================================================ properties
\* the tweets whose author is a, in the order of s
ByAuthor(s, a) == SelectSeq(s, LAMBDA t : t.author = a)

\* the slice [off, off + lim) of s, clipped to the length of s
Slice(s, off, lim) ==
    LET avail == IF off < Len(s) THEN Len(s) - off ELSE 0
        n == IF lim < avail THEN lim ELSE avail
    IN  [i \in 1..n |-> s[off + i]]

\* the stored tweets in ascending id order
AscendingTweets(this) ==
    LET ids == DOMAIN this.tweets.values
        rank(k) == Cardinality({j \in ids : j <= k})
    IN  [i \in 1..Cardinality(ids) |-> this.tweets.values[CHOOSE k \in ids : rank(k) = i]]

\* the whole enumeration of get_all_tweets: from 0, with a limit no store reaches
ListAllFull(this) == get_all_tweets(this, Some(U(0)), Some(U(MaxTweets + 1)))

\* C1 - the N-th post_tweet call returns id N-1: the ids returned so far are
\* 0, 1, .., created-1 in call order, whatever likes and deletes came between.
C1_MonotonicIds ==
    /\ postedIds = [i \in 1..created |-> i - 1]
    /\ call.op = "post_tweet" => ret[1].id = created - 1

C1_Witness ==
    /\ call.op = "post_tweet"
    /\ created = 3
    /\ DOMAIN deletedBy # {}

\* C2 - once delete_tweet has removed id k, get_tweet_by_id(k) is None in every
\* later state and no later post_tweet returns k.
C2_NoReuse ==
    \A k \in DOMAIN deletedBy :
        /\ get_tweet_by_id(self, k) = None
        /\ call.op = "post_tweet" => ret[1].id # k

C2_Witness ==
    /\ call.op = "post_tweet"
    /\ \E k \in DOMAIN deletedBy : k + 1 = ret[1].id

\* C3 - ownership gate: a delete_tweet(id) by a caller other than the tweet's
\* author leaves get_tweet_by_id(id) as it was, a delete_tweet(id) by the author
\* makes it None, and a tweet leaves the store only in a delete_tweet step whose
\* caller is the tweet's stored author.
C3_OwnershipGate ==
    [][\A id \in DOMAIN self.tweets.values :
          LET tweet == self.tweets.values[id]
              deleting == call'.op = "delete_tweet" /\ call'.tweet_id = id
          IN  /\ (deleting /\ call'.caller # tweet.author)
                    => get_tweet_by_id(self', id) = Some(tweet)
              /\ (deleting /\ call'.caller = tweet.author)
                    => get_tweet_by_id(self', id) = None
              /\ get_tweet_by_id(self', id) = None
                    => (deleting /\ call'.caller = tweet.author)
      ]_vars

C3_Witness ==
    /\ call.op = "delete_tweet"
    /\ log = "not_the_author"
    /\ get_tweet_by_id(self, call.tweet_id) # None
    /\ get_tweet_by_id(self, call.tweet_id)[1].author # call.caller
    /\ DOMAIN deletedBy # {}

\* C4 - get_all_tweets(offset, limit) is the list of the stored tweets in
\* ascending id order, sliced to [offset, offset + limit) and clipped.
C4_PaginationAscending ==
    \A off \in Indexes, lim \in Indexes :
        get_all_tweets(self, Some(U(off)), Some(U(lim))) = Slice(AscendingTweets(self), off, lim)

\* C5 - get_tweets_by_author(author, offset, limit) is the whole get_all_tweets
\* enumeration, filtered to the author, sliced to [offset, offset + limit).
C5_AuthorFilterEquivalence ==
    LET all == ListAllFull(self)
    IN  \A a \in AuthorArgs :
            LET matches == ByAuthor(all, a)
            IN  \A off \in Indexes, lim \in Indexes :
                    get_tweets_by_author(self, a, Some(U(off)), Some(U(lim)))
                        = Slice(matches, off, lim)

\* two matches with another author's tweet between them: the scan skips one
\* match, collects one, stops before the end, and finds nothing past the matches
C5_Witness ==
    /\ Len(self.tweets.keys) = 3
    /\ Len(ByAuthor(ListAllFull(self), "alice")) = 2
    /\ ListAllFull(self)[2].author = "bob"
    /\ Len(get_tweets_by_author(self, "alice", Some(U(1)), Some(U(1)))) = 1
    /\ Len(get_tweets_by_author(self, "alice", Some(U(0)), Some(U(1)))) = 1
    /\ get_tweets_by_author(self, "alice", Some(U(2)), Some(U(1))) = <<>>

\* C6 - every tweet get_tweets_by_author returns has the requested author, and
\* the returned tweets are in strictly ascending id order.
C6_AuthorAscending ==
    \A a \in AuthorArgs, off \in Indexes, lim \in Indexes :
        LET r == get_tweets_by_author(self, a, Some(U(off)), Some(U(lim)))
        IN  /\ \A i \in 1..Len(r) : r[i].author = a
            /\ \A i \in 1..Len(r), j \in 1..Len(r) : i < j => r[i].id < r[j].id

\* C7 - a present tweet's likes is the number of like_tweet calls made on it
\* since it was created, whoever made them, and the N-th such call returns
\* the tweet with likes = N.
C7_LikeAccumulation ==
    /\ \A id \in DOMAIN self.tweets.values : self.tweets.values[id].likes = likeCalls[id]
    /\ (call.op = "like_tweet" /\ log = "liked" /\ call.tweet_id \in DOMAIN likeCalls)
          => (ret # None /\ ret[1].id = call.tweet_id
              /\ ret[1].likes = likeCalls[call.tweet_id])

C7_Witness ==
    /\ call.op = "like_tweet"
    /\ ret # None
    /\ ret[1].likes = 2
    /\ ret[1].author # call.caller
    /\ \E id \in DOMAIN self.tweets.values : id # call.tweet_id
    /\ DOMAIN deletedBy # {}

\* C8 - like_tweet on an id that is not in the store returns None and leaves
\* the tweets and next_tweet_id as they were.
C8_LikeAbsent ==
    [][(call'.op = "like_tweet" /\ get_tweet_by_id(self, call'.tweet_id) = None)
          => (ret' = None /\ self' = self)]_vars

C8_Witness ==
    /\ call.op = "like_tweet"
    /\ log = "like_not_found"
    /\ ret = None
    /\ call.tweet_id \in DOMAIN deletedBy
    /\ self.tweets.keys # <<>>

\* C9 - delete_tweet on an id that is not in the store (never created, or
\* already deleted) returns and changes nothing, whoever calls; a second
\* delete of an id by its author is such a call.
C9_DeleteAbsent ==
    [][(call'.op = "delete_tweet" /\ get_tweet_by_id(self, call'.tweet_id) = None)
          => (self' = self /\ log' = "delete_not_found")]_vars

C9_Witness ==
    /\ call.op = "delete_tweet"
    /\ log = "delete_not_found"
    /\ call.tweet_id \in DOMAIN deletedBy
    /\ deletedBy[call.tweet_id] = call.caller
    /\ self.tweets.keys # <<>>

\* C10 - next_tweet_id is the number of post_tweet calls that have returned;
\* no other call changes it, and no call decreases it.
C10_NextIdCountsCreates ==
    /\ self.next_tweet_id = created
    /\ [][/\ self'.next_tweet_id = created'
          /\ call'.op # "post_tweet" => self'.next_tweet_id = self.next_tweet_id
          /\ self'.next_tweet_id >= self.next_tweet_id
         ]_vars

C10_Witness ==
    /\ call.op = "delete_tweet"
    /\ log = "deleted"
    /\ self.next_tweet_id = 3
    /\ Len(self.tweets.keys) = 1

\* C11 - every key of the tweets map is strictly less than next_tweet_id.
C11_KeysBelowNextId ==
    /\ \A k \in DOMAIN self.tweets.values : k < self.next_tweet_id
    /\ \A i \in 1..Len(self.tweets.keys) : self.tweets.keys[i] < self.next_tweet_id

C11_Witness ==
    /\ self.next_tweet_id = 3
    /\ MapContains(self.tweets, 2)
    /\ DOMAIN deletedBy # {}

\* C12 - a tweet that is present before and after a step keeps its id, author,
\* text and timestamp, and its likes are not smaller after the step.
C12_FieldImmutability ==
    [][\A id \in DOMAIN self.tweets.values \cap DOMAIN self'.tweets.values :
          LET before == self.tweets.values[id]
              after == self'.tweets.values[id]
          IN  /\ after.id = before.id
              /\ after.author = before.author
              /\ after.text = before.text
              /\ after.timestamp = before.timestamp
              /\ after.likes >= before.likes
      ]_vars

C12_Witness ==
    /\ call.op = "like_tweet"
    /\ log = "liked"
    /\ ret[1].author # call.caller
    /\ ret[1].likes = 2
    /\ Len(self.tweets.keys) = 2
    /\ DOMAIN deletedBy # {}

\* C13 - post_tweet returns the tweet (next_tweet_id before the call, the
\* caller, the text, the block timestamp, 0 likes); afterwards the map holds
\* exactly that one more entry under that id, next_tweet_id is one larger and
\* every tweet stored before is unchanged.
C13_CreateEffect ==
    [][call'.op = "post_tweet" =>
          LET p == ret'[1]
          IN  /\ Len(ret') = 1
              /\ p = Tweet(self.next_tweet_id, call'.caller, call'.text, call'.timestamp, 0)
              /\ ~MapContains(self.tweets, p.id)
              /\ DOMAIN self'.tweets.values = DOMAIN self.tweets.values \cup {p.id}
              /\ Len(self'.tweets.keys) = Len(self.tweets.keys) + 1
              /\ self'.tweets.values[p.id] = p
              /\ self'.next_tweet_id = self.next_tweet_id + 1
              /\ \A id \in DOMAIN self.tweets.values :
                    self'.tweets.values[id] = self.tweets.values[id]
      ]_vars

C13_Witness ==
    /\ call.op = "post_tweet"
    /\ ret[1].id = 2
    /\ Len(self.tweets.keys) = 2
    /\ \E id \in DOMAIN self.tweets.values : self.tweets.values[id].likes = 2

\* C14 - right after post_tweet returns p, get_tweet_by_id(p.id) is Some(p);
\* get_tweet_by_id of an id that was removed or never allocated is None.
C14_CreateGetRoundTrip ==
    /\ call.op = "post_tweet" => get_tweet_by_id(self, ret[1].id) = Some(ret[1])
    /\ \A id \in TweetIds :
          (id \in DOMAIN deletedBy \/ id >= created) => get_tweet_by_id(self, id) = None

C14_Witness ==
    /\ call.op = "post_tweet"
    /\ ret[1].id = 2
    /\ self.tweets.keys = <<1, 2>>
    /\ 0 \in DOMAIN deletedBy

\* C15 - a call of get_tweet_by_id, get_all_tweets or get_tweets_by_author
\* leaves the tweets map and next_tweet_id as they were, and the same view
\* call made again in the state it left returns the same result.
ViewOps == {"get_all_tweets", "get_tweet_by_id", "get_tweets_by_author"}

C16_OffsetBeyondCount ==
    \A from_index \in WideIndexes, lim \in Indexes :
        (from_index.hi > 0 \/ from_index.lo >= Len(self.tweets.keys))
            => get_all_tweets(self, Some(from_index), Some(U(lim))) = <<>>

\* from_index / limit arguments around the default limit
FeedArgs == {None} \cup {Some(U(n)) : n \in {0, 1, 9, 10, 11, MaxFeed}}

\* C17 - in get_all_tweets and get_tweets_by_author an absent from_index acts
\* as 0 and an absent limit as 10; with both absent the call returns the first
\* 10 (matching) tweets of the enumeration, or all of them if there are fewer.
C17_PaginationDefaults ==
    LET all == MapIter(self.tweets)
    IN  /\ \A arg \in FeedArgs :
              /\ get_all_tweets(self, None, arg) = get_all_tweets(self, Some(U(0)), arg)
              /\ get_all_tweets(self, arg, None) = get_all_tweets(self, arg, Some(U(10)))
        /\ get_all_tweets(self, None, None) = Slice(all, 0, 10)
        /\ \A a \in AuthorArgs :
              /\ \A arg \in FeedArgs :
                    /\ get_tweets_by_author(self, a, None, arg)
                          = get_tweets_by_author(self, a, Some(U(0)), arg)
                    /\ get_tweets_by_author(self, a, arg, None)
                          = get_tweets_by_author(self, a, arg, Some(U(10)))
              /\ get_tweets_by_author(self, a, None, None) = Slice(ByAuthor(all, a), 0, 10)

\* more tweets, and more tweets of one author, than the default limit
C17_Witness ==
    /\ Len(self.tweets.keys) = 12
    /\ Len(ByAuthor(MapIter(self.tweets), "alice")) = 11
    /\ Len(get_tweets_by_author(self, "alice", None, None)) = 10
    /\ Len(get_all_tweets(self, None, None)) = 10

\* C18 - no call faults: post_tweet, like_tweet and delete_tweet return for
\* every caller and id, also like_tweet on a tweet whose likes are u64::MAX and
\* post_tweet when next_tweet_id is u64::MAX.
C18_NoFault == log # "panic"

\* the place of tweet id in the enumeration s
Place(s, id) == CHOOSE i \in 1..Len(s) : s[i].id = id

\* C19 - two tweets that are present before and after a step are in the same
\* relative order in the get_all_tweets enumeration before and after it; a
\* delete_tweet of another tweet does not reorder the remaining ones.
C19_StableOrder ==
    [][LET before == ListAllFull(self)
           after == ListAllFull(self')
           kept == DOMAIN self.tweets.values \cap DOMAIN self'.tweets.values
       IN  \A a \in kept, b \in kept :
               Place(before, a) < Place(before, b) <=> Place(after, a) < Place(after, b)
      ]_vars

\* C20 - like_tweet(id) on a present tweet adds exactly 1 to that tweet's likes
\* and changes nothing else: the keys and their order, every other tweet, the
\* other fields of the liked tweet and next_tweet_id stay as they were, and the
\* call returns the tweet as stored after the increment.
C20_LikeEffect ==
    [][(call'.op = "like_tweet" /\ MapContains(self.tweets, call'.tweet_id)) =>
          LET id == call'.tweet_id
              before == self.tweets.values[id]
              after == self'.tweets.values[id]
          IN  /\ self'.tweets.keys = self.tweets.keys
              /\ DOMAIN self'.tweets.values = DOMAIN self.tweets.values
              /\ \A k \in DOMAIN self.tweets.values \ {id} :
                    self'.tweets.values[k] = self.tweets.values[k]
              /\ after.likes = before.likes + 1
              /\ after = [before EXCEPT !.likes = after.likes]
              /\ self'.next_tweet_id = self.next_tweet_id
              /\ ret' = Some(after)
      ]_vars

\* a second like, by an account that is not the author, with another author's
\* tweet in the store and a tweet removed earlier
C20_Witness ==
    /\ call.op = "like_tweet"
    /\ log = "liked"
    /\ ret = Some(self.tweets.values[call.tweet_id])
    /\ ret[1].likes = 2
    /\ ret[1].author # call.caller
    /\ \E k \in DOMAIN self.tweets.values : self.tweets.values[k].author # ret[1].author
    /\ DOMAIN deletedBy # {}

\* C21 - delete_tweet(id) by the tweet's author removes exactly that entry:
\* every other stored tweet is still returned by get_tweet_by_id with all its
\* fields, likes included, and next_tweet_id is as it was; delete_tweet(id) by
\* another account leaves the whole store as it was.
C21_DeleteEffect ==
    [][(call'.op = "delete_tweet" /\ MapContains(self.tweets, call'.tweet_id)) =>
          LET id == call'.tweet_id
              tweet == self.tweets.values[id]
          IN  IF call'.caller = tweet.author
              THEN /\ get_tweet_by_id(self', id) = None
                   /\ DOMAIN self'.tweets.values = DOMAIN self.tweets.values \ {id}
                   /\ Len(self'.tweets.keys) = Len(self.tweets.keys) - 1
                   /\ \A k \in DOMAIN self.tweets.values \ {id} :
                         get_tweet_by_id(self', k) = Some(self.tweets.values[k])
                   /\ self'.next_tweet_id = self.next_tweet_id
              ELSE self' = self
      ]_vars

\* the author has removed the first of three tweets: the last key has moved
\* into its slot, and the liked tweet next to it keeps its likes
C21_Witness ==
    /\ call.op = "delete_tweet"
    /\ log = "deleted"
    /\ call.tweet_id = 0
    /\ self.tweets.keys = <<2, 1>>
    /\ self.next_tweet_id = 3
    /\ self.tweets.values[1].likes = 2

C23_KeyIdConsistency ==
    /\ \A k \in DOMAIN self.tweets.values : self.tweets.values[k].id = k
    /\ \A k \in TweetIds :
          get_tweet_by_id(self, k) # None => get_tweet_by_id(self, k)[1].id = k

\* after a delete has moved key 2 into the first slot and tweet 2 was liked
C23_Witness ==
    /\ self.tweets.keys = <<2, 1>>
    /\ get_tweet_by_id(self, 2) # None
    /\ get_tweet_by_id(self, 2)[1].likes = 1
    /\ get_tweet_by_id(self, 0) = None
====
